---- MODULE Spec2Model ----
(***************************************************************************)
(* The consistent-hash routing continuum of the locator service            *)
(* (src/src/service/locator/routing.cpp): construction of the ring from a  *)
(* weighted group, the keyed and the keyless lookup, and the enumeration.  *)
(*                                                                         *)
(* Abstractions.  MD5 (libmhash) is an external function: it is modelled   *)
(* as one fixed deterministic function, Digest, that is injective on the   *)
(* model's member names except for one pair of names whose first digests   *)
(* collide.  point_type is PointBits wide instead of 32.  Weights are      *)
(* counted in units of half the machine epsilon, so that a total weight    *)
(* below, at and above epsilon all occur; lround is computed exactly.      *)
(***************************************************************************)
EXTENDS Integers, Sequences, FiniteSets, TLC

VARIABLES
    phase,        \* "unbuilt", "built" (the constructor returned), "failed" (it threw)
    group,        \* the group handed to the constructor
    m_elements,   \* continuum_t::m_elements
    m_rng,        \* continuum_t::m_rng, the state of the generator
    pc,           \* per thread: "idle", or "draw" inside m_distribution(m_rng)
    snap,         \* per thread: the generator state it read in "draw"
    rv,           \* the value returned by the last call that returned
    old_group,    \* the group of the continuum that the current one replaced
    old_answers   \* what the replaced continuum answered, per target point

vars == <<phase, group, m_elements, m_rng, pc, snap, rv, old_group, old_answers>>

----------------------------------------------------------------------------
(* Bounds and program constants *)

PointBits == 12
RngStates == 2

Replicas == 64
QuadSize == 4
Epsilon == 2

PointSpace == 2 ^ PointBits
Points == 0 .. (PointSpace - 1)

Members == {"a", "b", "c"}
Collider == "c"
Collided == "a"
Plain == "b"
Weights == {1, 255}
Threads == {"t1", "t2"}
MainThread == "t1"

\* std::map<std::string, ...> iterates in key order
MemberOrder == <<"a", "b", "c">>
Id(value) == CHOOSE i \in 1..Len(MemberOrder) : MemberOrder[i] = value

Groups == UNION {[D -> Weights] : D \in SUBSET Members}
PlainGroups == UNION {[D -> Weights] : D \in SUBSET (Members \ {Collider})}

Undefined == [point |-> -1, value |-> "<undefined>"]
NoReturn == [op |-> "none", point |-> -1, value |-> "", tuples |-> <<>>]

----------------------------------------------------------------------------
(* The hash *)

Multiplier == 1597

Mix(x) == (Multiplier * x + (PointSpace - 1)) % PointSpace

MixQuad(id, step) ==
    [k \in 1..QuadSize |-> Mix(Len(MemberOrder) * (QuadSize * step + (k - 1)) + (id - 1))]

\* mhash(value), mhash(step), mhash_deinit: the 16-byte digest as four points
Digest(value, step) ==
    IF value = Collider /\ step = 0
    THEN MixQuad(Id(Collided), 0)
    ELSE MixQuad(Id(value), step)

RECURSIVE BitXor(_, _)
BitXor(x, y) ==
    IF x = 0 THEN y
    ELSE IF y = 0 THEN x
    ELSE ((x + y) % 2) + 2 * BitXor(x \div 2, y \div 2)

\* boost::accumulate(digest.points, 0, std::bit_xor<point_type>())
Fold(digest) == BitXor(BitXor(BitXor(BitXor(0, digest[1]), digest[2]), digest[3]), digest[4])

----------------------------------------------------------------------------
(* The constructor *)

Length(G) == Cardinality(DOMAIN G)

RECURSIVE Accumulate(_, _)
Accumulate(G, D) ==
    IF D = {} THEN 0
    ELSE LET v == CHOOSE x \in D : TRUE IN G[v] + Accumulate(G, D \ {v})

TotalWeight(G) == Accumulate(G, DOMAIN G)

\* the check with "<=" in place of "<"
RejectedAtEpsilon(G) == Length(G) = 0 \/ TotalWeight(G) <= Epsilon

Rejected(G) == Length(G) = 0 \/ TotalWeight(G) < Epsilon

\* truncation, and rounding up, in place of lround
LroundTruncates(n, d) == n \div d

LroundUp(n, d) == (n + d - 1) \div d

\* ::lround of the quotient n / d, n >= 0, d > 0: to nearest, halves away from zero
Lround(n, d) == (2 * n + d) \div (2 * d)

\* the slice computed in integers; and the step count without the group's length
StepsIntegerSlice(G, value) == (G[value] \div TotalWeight(G)) * (Replicas * Length(G))

StepsWithoutLength(G, value) == Lround(G[value] * Replicas, TotalWeight(G))

Steps(G, value) == Lround(G[value] * (Replicas * Length(G)), TotalWeight(G))

Quads(value, steps) ==
    [i \in 1..(QuadSize * steps) |->
        [point |-> Digest(value, (i - 1) \div QuadSize)[((i - 1) % QuadSize) + 1],
         value |-> value]]

RECURSIVE Populate(_, _)
Populate(G, i) ==
    IF i > Len(MemberOrder) THEN <<>>
    ELSE IF MemberOrder[i] \in DOMAIN G
         THEN Quads(MemberOrder[i], Steps(G, MemberOrder[i])) \o Populate(G, i + 1)
         ELSE Populate(G, i + 1)

\* operator<(element_t, element_t): by point only
ElementLess(lhs, rhs) == lhs.point < rhs.point

\* operator<(point_type, element_t)
PointLess(point, rhs) == point < rhs.point

TiedAt(s) ==
    {i \in 1..(Len(s) - 1) : s[i].point = s[i + 1].point /\ s[i].value # s[i + 1].value}

Swapped(s, at) ==
    [i \in 1..Len(s) |-> IF i \in at THEN s[i + 1] ELSE IF (i - 1) \in at THEN s[i - 1] ELSE s[i]]

\* std::sort is not stable: elements of equal points end in any order
Sort(raw) ==
    LET s == SortSeq(raw, ElementLess)
    IN  {Swapped(s, at) : at \in {x \in SUBSET TiedAt(s) : \A i \in x : (i + 1) \notin x}}

Seeds == 0 .. (RngStates - 1)

\* every continuum the constructor can leave: a group it accepts, and its elements
Continua ==
    {c \in UNION {{[group |-> G, elements |-> els] : els \in Sort(Populate(G, 1))} :
                      G \in {H \in Groups : ~Rejected(H)}} : TRUE}

ConstructFrom(Gs) ==
    /\ phase \in {"unbuilt", "failed"}
    /\ \E G \in Gs :
        /\ group' = G
        /\ IF Rejected(G)
           THEN /\ phase' = "failed"
                /\ UNCHANGED <<m_elements, m_rng>>
           ELSE /\ phase' = "built"
                /\ \E c \in Continua : c.group = G /\ m_elements' = c.elements
                /\ m_rng' \in Seeds
    /\ UNCHANGED <<pc, snap, rv, old_group, old_answers>>

Construct == ConstructFrom(Groups)

----------------------------------------------------------------------------
(* The lookups *)

\* std::lower_bound in place of std::upper_bound
RECURSIVE LowerBound(_, _, _, _)
LowerBound(els, point, first, count) ==
    IF count = 0 THEN first
    ELSE LET step == count \div 2
             it == first + step
         IN  IF els[it].point < point
             THEN LowerBound(els, point, it + 1, count - step - 1)
             ELSE LowerBound(els, point, first, step)

\* std::upper_bound(first, first + count, point): the index found, Len + 1 for end()
RECURSIVE UpperBound(_, _, _, _)
UpperBound(els, point, first, count) ==
    IF count = 0 THEN first
    ELSE LET step == count \div 2
             it == first + step
         IN  IF ~PointLess(point, els[it])
             THEN UpperBound(els, point, it + 1, count - step - 1)
             ELSE UpperBound(els, point, first, step)

\* m_elements.back() in place of m_elements.front()
LookupWrapsToBack(els, point) ==
    LET it == UpperBound(els, point, 1, Len(els))
    IN  IF it # Len(els) + 1 THEN els[it]
        ELSE IF Len(els) > 0 THEN els[Len(els)] ELSE Undefined

\* it != end() ? *it : front(); front() of an empty vector is undefined
Lookup(els, point) ==
    LET it == UpperBound(els, point, 1, Len(els))
    IN  IF it # Len(els) + 1 THEN els[it]
        ELSE IF Len(els) > 0 THEN els[1] ELSE Undefined

\* target points at both ends of the point space, in its middle, at and just below
\* two points that the colliding members share, and just below a point that a
\* member holds only when its share gives it more than Replicas steps
KeyWords ==
    {0, PointSpace - 1, PointSpace \div 2}
        \cup {Digest(Collided, 0)[k] : k \in 1..2}
        \cup {Digest(Collided, 0)[k] - 1 : k \in 1..2}
        \cup {Digest(Plain, Replicas)[2] - 1}

\* the MD5 digests of the keys the callers use
KeyDigests == {<<PointSpace - 1, w, 0, PointSpace - 1>> : w \in KeyWords \cap Points}

KeyPoints == {Fold(d) : d \in KeyDigests}

\* the value moved out of the element found
GetKeyMoving(t, digest) ==
    /\ phase = "built"
    /\ pc[t] = "idle"
    /\ LET point == Fold(digest)
           it == UpperBound(m_elements, point, 1, Len(m_elements))
           at == IF it # Len(m_elements) + 1 THEN it ELSE 1
       IN  /\ rv' = [op |-> "get_key", point |-> point, value |-> m_elements[at].value,
                     tuples |-> <<>>]
           /\ m_elements' = [m_elements EXCEPT ![at].value = ""]
    /\ UNCHANGED <<phase, group, m_rng, pc, snap, old_group, old_answers>>

GetKey(t, digest) ==
    /\ phase = "built"
    /\ pc[t] = "idle"
    /\ LET point == Fold(digest)
           found == Lookup(m_elements, point)
       IN  rv' = [op |-> "get_key", point |-> point, value |-> found.value, tuples |-> <<>>]
    /\ UNCHANGED <<phase, group, m_elements, m_rng, pc, snap, old_group, old_answers>>

Without(G, member) == [v \in DOMAIN G \ {member} |-> G[v]]

\* the consumer replaces the continuum by one constructed from the group less one
\* member; when the constructor throws, the continuum in use stays as it is
RemoveMember(member) ==
    /\ phase = "built"
    /\ member \in DOMAIN group
    /\ \A t \in Threads : pc[t] = "idle"
    /\ IF Rejected(Without(group, member))
       THEN UNCHANGED vars
       ELSE /\ group' = Without(group, member)
            /\ \E c \in Continua :
                c.group = Without(group, member) /\ m_elements' = c.elements
            /\ m_rng' \in Seeds
            /\ old_group' = group
            /\ old_answers' = [p \in KeyPoints |-> Lookup(m_elements, p).value]
            /\ rv' = NoReturn
            /\ UNCHANGED <<phase, pc, snap>>

\* the point the generator yields in state s, and the state it leaves
RngPoint(s) == Mix(5 * s + 7)
RngNext(s) == (s + 1) % RngStates

\* get(): m_distribution(m_rng) reads the generator ...
GetDraw(t) ==
    /\ phase = "built"
    /\ pc[t] = "idle"
    /\ pc' = [pc EXCEPT ![t] = "draw"]
    /\ snap' = [snap EXCEPT ![t] = m_rng]
    /\ UNCHANGED <<phase, group, m_elements, m_rng, rv, old_group, old_answers>>

\* ... and writes it back; unsynchronized, so a concurrent draw leaves any state
GetReturn(t) ==
    /\ pc[t] = "draw"
    /\ pc' = [pc EXCEPT ![t] = "idle"]
    /\ \E s \in Seeds :
        /\ (\A u \in Threads \ {t} : pc[u] # "draw") /\ m_rng = snap[t] => s = snap[t]
        /\ m_rng' = RngNext(s)
        /\ LET point == RngPoint(s)
               found == Lookup(m_elements, point)
           IN  rv' = [op |-> "get", point |-> point, value |-> found.value, tuples |-> <<>>]
    /\ UNCHANGED <<phase, group, m_elements, snap, old_group, old_answers>>

All(t) ==
    /\ phase = "built"
    /\ pc[t] = "idle"
    /\ rv' = [op |-> "all", point |-> -1, value |-> "",
              tuples |-> [i \in 1..Len(m_elements) |->
                             <<m_elements[i].point, m_elements[i].value>>]]
    /\ UNCHANGED <<phase, group, m_elements, m_rng, pc, snap, old_group, old_answers>>

----------------------------------------------------------------------------

Init ==
    /\ phase = "unbuilt"
    /\ group = <<>>
    /\ m_elements = <<>>
    /\ m_rng = 0
    /\ pc = [t \in Threads |-> "idle"]
    /\ snap = [t \in Threads |-> 0]
    /\ rv = NoReturn
    /\ old_group = <<>>
    /\ old_answers = <<>>

Next ==
    \/ Construct
    \/ \E d \in KeyDigests : GetKey(MainThread, d)
    \/ GetDraw(MainThread)
    \/ GetReturn(MainThread)
    \/ All(MainThread)

Spec == Init /\ [][Next]_vars

\* the continuum is replaced when a member leaves the group
NextRebuild ==
    \/ Construct
    \/ \E member \in Members : RemoveMember(member)
    \/ \E d \in KeyDigests : GetKey(MainThread, d)

SpecRebuild == Init /\ [][NextRebuild]_vars

\* the continuum is constructed on one thread, then shared by all of them
NextShared ==
    \/ ConstructFrom(PlainGroups)
    \/ \E t \in Threads :
        \/ \E d \in KeyDigests : GetKey(t, d)
        \/ GetDraw(t)
        \/ GetReturn(t)
        \/ All(t)

SpecShared == Init /\ [][NextShared]_vars

----------------------------------------------------------------------------
(* What the claims are stated with *)

Built == phase = "built"

Ring == 1..Len(m_elements)

PositiveWeights(G) == \A v \in DOMAIN G : G[v] > 0

\* the integer nearest to n / d, halves away from zero (n >= 0, d > 0)
RoundHalfAway(n, d) ==
    CHOOSE s \in 0..(n + 1) : 2 * d * s <= 2 * n + d /\ 2 * n + d < 2 * d * (s + 1)

RECURSIVE Total(_, _)
Total(G, D) == IF D = {} THEN 0 ELSE LET v == CHOOSE x \in D : TRUE IN G[v] + Total(G, D \ {v})

\* round(w_v / W * 64 * L)
StepCount(G, v) == RoundHalfAway(G[v] * 64 * Cardinality(DOMAIN G), Total(G, DOMAIN G))

RECURSIVE StepSum(_, _)
StepSum(G, D) ==
    IF D = {} THEN 0 ELSE LET v == CHOOSE x \in D : TRUE IN StepCount(G, v) + StepSum(G, D \ {v})

\* the elements whose point is strictly greater than p
Above(p) == {i \in Ring : m_elements[i].point > p}

First(S) == CHOOSE i \in S : \A j \in S : i <= j

Returned == rv.op \in {"get_key", "get"}

----------------------------------------------------------------------------
(* C1: a keyed lookup whose folded point is p returns the value of the first     *)
(* element in ring order whose point is strictly greater than p, and the value  *)
(* of the first element of the ring when no element has such a point.           *)
C1_UpperBoundOrWrap ==
    (Built /\ rv.op = "get_key") =>
        IF Above(rv.point) = {}
        THEN rv.value = m_elements[1].value
        ELSE rv.value = m_elements[First(Above(rv.point))].value

\* a lookup exactly at the maximum ring point wrapped to another member's element
C1_Witness ==
    /\ Built /\ rv.op = "get_key"
    /\ rv.point = m_elements[Len(m_elements)].point
    /\ rv.value = m_elements[1].value
    /\ m_elements[1].value # m_elements[Len(m_elements)].value

(* C3, as amended: construction fails exactly when the group is empty or its    *)
(* total weight, as the constructor accumulates it, is strictly below epsilon;  *)
(* a group whose total weight equals epsilon is accepted.                       *)
C3_FailsIffEmptyOrBelowEpsilon ==
    (phase # "unbuilt") =>
        (phase = "failed" <=> (DOMAIN group = {} \/ Total(group, DOMAIN group) < Epsilon))

\* a group whose total weight is exactly epsilon has been constructed
C3_Witness == Built /\ Total(group, DOMAIN group) = Epsilon /\ old_group = <<>>

(* C3, as claimed: construction fails whenever the group is empty or its total  *)
(* weight is at most epsilon, and succeeds for every other group.               *)
C3_FailsIffEmptyOrAtMostEpsilon ==
    (phase # "unbuilt") =>
        (phase = "failed" <=> (DOMAIN group = {} \/ Total(group, DOMAIN group) <= Epsilon))

(* C4: a continuum constructed from a group of strictly positive weights has at *)
(* least one element, so no lookup reads an element that does not exist.        *)
C4_NonEmpty ==
    (Built /\ PositiveWeights(group)) =>
        /\ Len(m_elements) >= 1
        /\ Returned => rv.value \in DOMAIN group
        /\ rv.op = "all" => Len(rv.tuples) >= 1

\* a lookup above every ring point read the first element
C4_Witness ==
    /\ Built /\ PositiveWeights(group) /\ rv.op = "get_key"
    /\ rv.point > m_elements[Len(m_elements)].point
    /\ rv.value = m_elements[1].value

(* C5: no two callers of the keyless get() are reading and updating the         *)
(* generator's state at the same time.                                          *)
C5_RngExclusive == Cardinality({t \in Threads : pc[t] = "draw"}) <= 1

(* C6: lookups and the enumeration leave the element sequence as constructed,   *)
(* change the generator's state only in the keyless get(), and a keyed lookup   *)
(* of the same point returns the same value as the one before it.               *)
C6_LookupsPreserve ==
    [][(Built /\ phase' = "built") =>
          /\ m_elements' = m_elements
          /\ group' = group
          /\ m_rng' # m_rng => \E t \in Threads : pc[t] = "draw" /\ pc'[t] = "idle"
          /\ (rv.op = "get_key" /\ rv'.op = "get_key" /\ rv'.point = rv.point)
                => rv'.value = rv.value]_vars

\* a keyed lookup returned while another thread was inside the keyless get()
C6_Witness == Built /\ rv.op = "get_key" /\ \E t \in Threads : pc[t] = "draw"

(* C7, as amended: every member that has an element which is the first of the   *)
(* ring or whose point is strictly greater than that of the element before it   *)
(* is returned for at least one target point: the point of the element that     *)
(* precedes one of its elements on the ring.                                    *)
Leads(v) ==
    \E i \in Ring :
        /\ m_elements[i].value = v
        /\ i = 1 \/ m_elements[i - 1].point < m_elements[i].point

Before(i) == IF i = 1 THEN m_elements[Len(m_elements)].point ELSE m_elements[i - 1].point

C7_LeadingMembersCovered ==
    Built => \A v \in DOMAIN group :
        Leads(v) => \E i \in Ring :
            /\ m_elements[i].value = v
            /\ Before(i) \in Points
            /\ Lookup(m_elements, Before(i)).value = v

Covered(v) == \E p \in Points : Lookup(m_elements, p).value = v

\* in a ring where two members share a point, a lookup returned the colliding member
C7_Witness ==
    /\ Built /\ rv.op = "get_key" /\ rv.value = Collider
    /\ \E i \in Ring \ {1} :
        /\ m_elements[i].point = m_elements[i - 1].point
        /\ m_elements[i].value # m_elements[i - 1].value

(* C7, as claimed: every member whose step count is at least 1 is returned for  *)
(* at least one target point, also when members share points.                   *)
C7_EveryMemberCovered ==
    Built => \A v \in DOMAIN group : StepCount(group, v) >= 1 => Covered(v)

(* C8: when a group that passes the precondition holds a member whose rounded   *)
(* step count is 0, construction succeeds, the member has no element in the     *)
(* ring, and no keyed or keyless lookup returns it.                             *)
C8_ZeroStepsUnreachable ==
    \A v \in DOMAIN group :
        (phase # "unbuilt" /\ Total(group, DOMAIN group) > Epsilon
            /\ StepCount(group, v) = 0) =>
                /\ Built
                /\ \A i \in Ring : m_elements[i].value # v
                /\ Returned => rv.value # v
                /\ rv.op = "all" => \A i \in 1..Len(rv.tuples) : rv.tuples[i][2] # v

\* a keyless lookup returned on a continuum whose group has a member of no steps
C8_Witness ==
    /\ Built /\ rv.op = "get"
    /\ \E v \in DOMAIN group : StepCount(group, v) = 0

(* C9: the element sequence is sorted by (point, value) ascending: points do    *)
(* not decrease, and elements of equal points are in ascending order of value.  *)
C9_SortedByPointThenValue ==
    Built => \A i \in Ring \ {1} :
        \/ m_elements[i - 1].point < m_elements[i].point
        \/ /\ m_elements[i - 1].point = m_elements[i].point
           /\ Id(m_elements[i - 1].value) <= Id(m_elements[i].value)

----------------------------------------------------------------------------
(* C2 is about a continuum and the one that replaces it *)

Removed == CHOOSE m \in DOMAIN old_group : m \notin DOMAIN group

Replaced == Built /\ old_group # <<>> /\ rv.op = "get_key"

(* C2, as claimed: a key that the continuum of G mapped to a member other than  *)
(* the removed one is mapped to the same member by the continuum of G less it.  *)
C2_OnlyRemovedDisplaced ==
    (Replaced /\ PositiveWeights(old_group)) =>
        (old_answers[rv.point] # Removed => rv.value = old_answers[rv.point])

(* C2, as amended: that holds when every remaining member has the same step     *)
(* count in both groups and no two remaining members share a ring point.        *)
StepsKept == \A v \in DOMAIN group : StepCount(group, v) = StepCount(old_group, v)

NoSharedPoint ==
    \A i \in Ring \ {1} :
        m_elements[i - 1].point = m_elements[i].point
            => m_elements[i - 1].value = m_elements[i].value

C2_DisplacedWhenStepsKept ==
    (Replaced /\ PositiveWeights(old_group) /\ StepsKept /\ NoSharedPoint) =>
        (old_answers[rv.point] # Removed => rv.value = old_answers[rv.point])

\* after a removal that kept the step counts, a key kept its member
C2_Witness ==
    /\ Replaced /\ StepsKept /\ NoSharedPoint
    /\ Cardinality(DOMAIN group) >= 2
    /\ old_answers[rv.point] # Removed
    /\ rv.value = old_answers[rv.point]

====
